---- MODULE Spec2Model ----
(***************************************************************************)
(* Calibration and estimation of a Solow growth model (solowPy notebooks). *)
(*                                                                         *)
(* The state is one country's slice of the Penn World Tables panel, one    *)
(* model object (its production variant and its params mapping) and the    *)
(* position of the call in progress.  match_moments is one step; a call    *)
(* of maximize_likelihood is a sequence of steps, because the optimizer    *)
(* calls _likelihood_function back once per candidate and each call-back   *)
(* assigns to model.params.                                                *)
(*                                                                         *)
(* Numbers.  A real number is an exact rational <<num, den>> with den > 0  *)
(* in lowest terms; NaN is <<0, 0>> and propagates through arithmetic as   *)
(* it does in numpy.  A level quantity (output, capital, employment,       *)
(* technology) is [ln |-> r], the positive real e^r: np.log and np.exp are *)
(* then exact, and a Cobb-Douglas Solow residual of such levels is again   *)
(* such a level.  Floating-point rounding is not modelled.                 *)
(***************************************************************************)
EXTENDS Integers, Sequences, FiniteSets, TLC

(* ------------------------------ bounds --------------------------------- *)

\* Number of years in the country's panel slice (years 1..NYears).
NYears == 3

\* Largest number of objective evaluations the optimizer makes in one call.
MaxEvals == 2

\* Largest number of operations (constructions, assignments, estimation
\* calls) made on the model in one behaviour.
MaxOps == 1

(* --------------------------- exact rationals --------------------------- *)

NaN == <<0, 0>>

IsNaN(a) == a[2] = 0

Abs(i) == IF i < 0 THEN -i ELSE i

RECURSIVE Gcd(_, _)
Gcd(a, b) == IF b = 0 THEN a ELSE Gcd(b, a % b)

\* The rational n/d in lowest terms with a positive denominator; x/0 is NaN.
R(n, d) ==
    IF d = 0 THEN NaN
    ELSE LET g == Gcd(Abs(n), Abs(d))
             s == IF d < 0 THEN -1 ELSE 1
         IN  <<(s * n) \div g, (s * d) \div g>>

Zero == R(0, 1)

One == R(1, 1)

RAdd(a, b) == IF IsNaN(a) \/ IsNaN(b) THEN NaN
              ELSE R(a[1] * b[2] + b[1] * a[2], a[2] * b[2])

RSub(a, b) == IF IsNaN(a) \/ IsNaN(b) THEN NaN
              ELSE R(a[1] * b[2] - b[1] * a[2], a[2] * b[2])

RMul(a, b) == IF IsNaN(a) \/ IsNaN(b) THEN NaN
              ELSE R(a[1] * b[1], a[2] * b[2])

RDiv(a, b) == IF IsNaN(a) \/ IsNaN(b) THEN NaN
              ELSE R(a[1] * b[2], a[2] * b[1])

\* Comparisons with NaN are false, as in IEEE arithmetic.
RLt(a, b) == ~IsNaN(a) /\ ~IsNaN(b) /\ a[1] * b[2] < b[1] * a[2]

RECURSIVE RSum(_)
RSum(xs) == IF xs = <<>> THEN Zero ELSE RAdd(Head(xs), RSum(Tail(xs)))

(* ------------------------- levels, log and exp ------------------------- *)

\* The level e^r.
Lvl(r) == [ln |-> r]

\* np.log of a level
Log(v) == v.ln

\* np.exp of a real
Exp(r) == [ln |-> r]

(* ------------------------------ the data ------------------------------- *)

\* data.major_xs(iso3_code): the chosen country's rows, one per year, in
\* ascending year order.  A missing observation is NaN.
LevelVars == {"rgdpna", "rkna", "emp"}

Row(y, k, l, labsh, csh_i, delta_k) ==
    [rgdpna |-> y, rkna |-> k, emp |-> l,
     labsh |-> labsh, csh_i |-> csh_i, delta_k |-> delta_k]

\* The observations a year of the panel may hold.
RowChoices ==
    { Row(Lvl(R(2, 1)), Lvl(R(1, 1)), Lvl(R(0, 1)), R(3, 5), R(1, 5), R(1, 20)),
      Row(Lvl(R(3, 1)), Lvl(R(3, 1)), Lvl(R(1, 1)), R(1, 2), R(3, 10), R(1, 10)),
      Row(Lvl(R(2, 1)), Lvl(R(2, 1)), Lvl(R(1, 1)), R(3, 5), NaN, R(1, 20)),
      Row(Lvl(R(3, 1)), Lvl(R(1, 1)), Lvl(R(0, 1)), NaN, R(1, 5), R(1, 10)) }

Years == 1..NYears

WithYear(row, yr) == [v \in DOMAIN row \cup {"year"} |->
                         IF v = "year" THEN yr ELSE row[v]]

Datasets == { [yr \in Years |-> WithYear(f[yr], yr)] : f \in [Years -> RowChoices] }

IsMissing(row, v) == IF v \in LevelVars THEN IsNaN(row[v].ln) ELSE IsNaN(row[v])

\* tmp_data[required_vars].dropna(): the rows with every required series present
DropNa(rows, required_vars) ==
    SelectSeq(rows, LAMBDA row : \A v \in required_vars : ~IsMissing(row, v))

\* An open end of a slice (None).
None == -1

\* bounds=None
NoBounds == <<FALSE, None, None>>

\* bounds=(start, end)
Bounds(start, end) == <<TRUE, start, end>>

\* Mutant: the slice stops before its end label.
LocStop_Exclusive(end) == end

\* The year after the end-of-slice label: a label slice includes its end.
LocStop(end) == end + 1

\* frame.loc[start:end]: label slicing on the ascending year index
Loc(rows, start, end) ==
    SelectSeq(rows, LAMBDA row : /\ (start = None \/ row.year >= start)
                                 /\ (end = None \/ row.year < LocStop(end)))

Column(rows, v) == [i \in 1..Len(rows) |-> [year |-> rows[i].year, val |-> rows[i][v]]]

Vals(series) == [i \in 1..Len(series) |-> series[i].val]

\* Series.mean(): NaN for an empty series
Mean(series) == R(RSum(Vals(series))[1], RSum(Vals(series))[2] * Len(series))

(* ------------------------ ordinary least squares ----------------------- *)

\* pd.ols(y=..., x=...).beta: <<slope, intercept>> of the least-squares line
\* of ys on xs (the minimum-norm one when the xs do not vary).
Ols(ys, xs) ==
    LET N   == R(Len(xs), 1)
        Sx  == RSum(xs)
        Sy  == RSum(ys)
        Sxy == RSum([i \in 1..Len(xs) |-> RMul(xs[i], ys[i])])
        Sxx == RSum([i \in 1..Len(xs) |-> RMul(xs[i], xs[i])])
        det == RSub(RMul(N, Sxx), RMul(Sx, Sx))
        xm  == RDiv(Sx, N)
        ym  == RDiv(Sy, N)
        nrm == RAdd(RMul(xm, xm), One)
    IN  IF det = Zero
        THEN <<RDiv(RMul(xm, ym), nrm), RDiv(ym, nrm)>>
        ELSE LET slope == RDiv(RSub(RMul(N, Sxy), RMul(Sx, Sy)), det)
             IN  <<slope, RDiv(RSub(Sy, RMul(slope, Sx)), N)>>

(* ------------------------------ the model ------------------------------ *)

\* The keys a production variant requires in its params mapping.
RequiredKeys(variant) ==
    IF variant = "CES"
    THEN {"A0", "L0", "g", "n", "s", "delta", "alpha", "sigma"}
    ELSE {"A0", "L0", "g", "n", "s", "delta", "alpha"}

\* Mutant: the check of g + n + delta is forgotten.
ValidateParams_NoGrowthCheck(variant, p) ==
    /\ RequiredKeys(variant) \subseteq DOMAIN p
    /\ RLt(Zero, p.alpha) /\ RLt(p.alpha, One)
    /\ RLt(Zero, p.s)
    /\ RLt(Zero, p.delta)

\* The validation done whenever params is set:
\* 0 < alpha < 1, s > 0, delta > 0 and g + n + delta > 0.
ValidateParams(variant, p) ==
    /\ RequiredKeys(variant) \subseteq DOMAIN p
    /\ RLt(Zero, p.alpha) /\ RLt(p.alpha, One)
    /\ RLt(Zero, p.s)
    /\ RLt(Zero, p.delta)
    /\ RLt(Zero, RAdd(RAdd(p.g, p.n), p.delta))

\* The Cobb-Douglas form of the residual applies to a Cobb-Douglas model and
\* to a CES model at its sigma = 1 limit.
IsCobbDouglasForm(m) ==
    IF m.variant = "CobbDouglas" THEN TRUE ELSE m.params.sigma = One

\* log of the Solow residual A of one observation, from Y = F(K, A L):
\*   Cobb-Douglas   ln A = (ln Y - alpha ln K) / (1 - alpha) - ln L
\*   CES with K = Y ln A = ln Y - ln L, whatever alpha and sigma
LogSolowResidual(m, y, k, l) ==
    IF Log(k) = Log(y)
    THEN RSub(Log(y), Log(l))
    ELSE RSub(RDiv(RSub(Log(y), RMul(m.params.alpha, Log(k))),
                   RSub(One, m.params.alpha)),
              Log(l))

\* model.evaluate_solow_residual(output, capital, labor), series by series
EvaluateSolowResidual(m, output, capital, labor) ==
    [i \in 1..Len(output) |->
        [year |-> output[i].year,
         val  |-> Exp(LogSolowResidual(m, output[i].val, capital[i].val, labor[i].val))]]

\* The residual of these observations has a closed form in the model's numbers.
HasClosedForm(m, rows) ==
    IF IsCobbDouglasForm(m)
    THEN TRUE
    ELSE \A i \in 1..Len(rows) : rows[i].rkna = rows[i].rgdpna

(* ---------------------------- match_moments ---------------------------- *)

\* Mutant: the intercept is taken for the slope.
OlsSlope_Intercept(res) == res[2]

\* res.beta[0]: the coefficient of x
OlsSlope(res) == res[1]

\* res.beta[1]: the intercept
OlsIntercept(res) == res[2]

InsufficientData == "Insufficient data to estimate model parameters"

MatchMomentsRequiredVars == {"rgdpna", "rkna", "emp", "labsh", "csh_i", "delta_k"}

\* start and end of the slice: the first and last complete year by default.
SliceStart(rows, bounds) == IF bounds[1] THEN bounds[2] ELSE rows[1].year

SliceEnd(rows, bounds) == IF bounds[1] THEN bounds[3] ELSE rows[Len(rows)].year

\* Mutant: the trend starts at 1.
LinearTrend_FromOne(N) == [i \in 1..N |-> R(i, 1)]

\* np.linspace(0, N - 1, N)
LinearTrend(N) == [i \in 1..N |-> R(i - 1, 1)]

\* Mutant: the labor share is taken for the capital share.
CapitalShare_LaborShare(labsh) == labsh

\* capital_share = 1 - labor_share
CapitalShare(labsh) == RSub(One, labsh)

\* Mutant: the wrong series is averaged.
SavingsRate_WrongSeries(rows) == Column(rows, "delta_k")

\* savings_rate = tmp_data['csh_i']
SavingsRate(rows) == Column(rows, "csh_i")

\* depreciation_rate = tmp_data['delta_k']
DepreciationRate(rows) == Column(rows, "delta_k")

LogSeries(series) == [i \in 1..Len(series) |-> Log(series[i].val)]

\* Mutant: a key is left out of the mapping.
TmpParams_NoA0(s, alpha, delta, n, L0, g, A0) ==
    [s |-> s, alpha |-> alpha, delta |-> delta, n |-> n, L0 |-> L0, g |-> g]

\* tmp_params = {'s': s, 'alpha': alpha, 'delta': delta, 'n': n, 'L0': L0,
\*               'g': g, 'A0': A0}
TmpParams(s, alpha, delta, n, L0, g, A0) ==
    [s |-> s, alpha |-> alpha, delta |-> delta, n |-> n, L0 |-> L0,
     g |-> g, A0 |-> A0]

\* Mutant: alpha is read from the model instead of the labor share data.
MatchMoments_AlphaFromModel(m, rows, bounds, olsOnEmpty) ==
    LET complete == DropNa(rows, MatchMomentsRequiredVars)
    IN  IF complete = <<>>
        THEN [kind |-> "raise", error |-> InsufficientData]
        ELSE
        LET start        == SliceStart(complete, bounds)
            end          == SliceEnd(complete, bounds)
            tmp_data     == Loc(complete, start, end)
            output       == Column(tmp_data, "rgdpna")
            capital      == Column(tmp_data, "rkna")
            labor        == Column(tmp_data, "emp")
            labor_share  == Column(tmp_data, "labsh")
            N            == Len(tmp_data)
            linear_trend == [i \in 1..N |->
                                [year |-> tmp_data[i].year, val |-> LinearTrend(N)[i]]]
            time_trend   == Loc(linear_trend, start, end)
            capital_share == [i \in 1..N |->
                                [year |-> labor_share[i].year,
                                 val  |-> CapitalShare(labor_share[i].val)]]
            alpha        == m.params.alpha
            solow_residual == EvaluateSolowResidual(m, output, capital, labor)
            technology   == Loc(solow_residual, start, end)
            s            == Mean(SavingsRate(tmp_data))
            delta        == Mean(DepreciationRate(tmp_data))
            index        == [i \in 1..N |-> tmp_data[i].year]
        IN  IF N = 0
            THEN IF olsOnEmpty = "raise"
                 THEN [kind |-> "raise", error |-> "pd.ols: no observations"]
                 ELSE [kind |-> "return", index |-> index,
                       value |-> TmpParams(s, alpha, delta, NaN, Exp(NaN),
                                           NaN, Exp(NaN))]
            ELSE LET resL == Ols(LogSeries(labor), Vals(time_trend))
                     resA == Ols(LogSeries(technology), Vals(time_trend))
                 IN  [kind |-> "return", index |-> index,
                      value |-> TmpParams(s, alpha, delta,
                                          OlsSlope(resL), Exp(OlsIntercept(resL)),
                                          OlsSlope(resA), Exp(OlsIntercept(resA)))]

\* match_moments(model, data, iso3_code, bounds).  olsOnEmpty is what pd.ols
\* does with no observation at all: it raises, or it yields NaN coefficients.
MatchMoments(m, rows, bounds, olsOnEmpty) ==
    LET complete == DropNa(rows, MatchMomentsRequiredVars)
    IN  IF complete = <<>>
        THEN [kind |-> "raise", error |-> InsufficientData]
        ELSE
        LET start        == SliceStart(complete, bounds)
            end          == SliceEnd(complete, bounds)
            tmp_data     == Loc(complete, start, end)
            output       == Column(tmp_data, "rgdpna")
            capital      == Column(tmp_data, "rkna")
            labor        == Column(tmp_data, "emp")
            labor_share  == Column(tmp_data, "labsh")
            N            == Len(tmp_data)
            linear_trend == [i \in 1..N |->
                                [year |-> tmp_data[i].year, val |-> LinearTrend(N)[i]]]
            time_trend   == Loc(linear_trend, start, end)
            capital_share == [i \in 1..N |->
                                [year |-> labor_share[i].year,
                                 val  |-> CapitalShare(labor_share[i].val)]]
            alpha        == Mean(capital_share)
            solow_residual == EvaluateSolowResidual(m, output, capital, labor)
            technology   == Loc(solow_residual, start, end)
            s            == Mean(SavingsRate(tmp_data))
            delta        == Mean(DepreciationRate(tmp_data))
            index        == [i \in 1..N |-> tmp_data[i].year]
        IN  IF N = 0
            THEN IF olsOnEmpty = "raise"
                 THEN [kind |-> "raise", error |-> "pd.ols: no observations"]
                 ELSE [kind |-> "return", index |-> index,
                       value |-> TmpParams(s, alpha, delta, NaN, Exp(NaN),
                                           NaN, Exp(NaN))]
            ELSE LET resL == Ols(LogSeries(labor), Vals(time_trend))
                     resA == Ols(LogSeries(technology), Vals(time_trend))
                 IN  [kind |-> "return", index |-> index,
                      value |-> TmpParams(s, alpha, delta,
                                          OlsSlope(resL), Exp(OlsIntercept(resL)),
                                          OlsSlope(resA), Exp(OlsIntercept(resA)))]

(* ------------------------- maximize_likelihood ------------------------- *)

MaximizeLikelihoodRequiredVars == {"rgdpna", "rkna", "emp", "labsh"}

\* keys = ['g', 'n', 's', 'alpha', 'delta', 'sigma', 'sigma_eps']
ParamKeys == <<"g", "n", "s", "alpha", "delta", "sigma", "sigma_eps">>

\* Mutant: the keys sigma and sigma_eps change places in the list of keys.
ArrayToParams_SigmaKeysSwapped(array) ==
    LET keys == <<"g", "n", "s", "alpha", "delta", "sigma_eps", "sigma">>
    IN  [k \in {keys[i] : i \in 1..Len(array)} |->
            array[CHOOSE i \in 1..Len(array) : keys[i] = k]]

\* _array_to_params(array): dict(zip(keys, array))
ArrayToParams(array) ==
    [k \in {ParamKeys[i] : i \in 1..Len(array)} |->
        array[CHOOSE i \in 1..Len(array) : ParamKeys[i] = k]]

\* Mutant: s and alpha change places in the array.
ParamsToArray_AlphaBeforeS(params) ==
    <<params.g, params.n, params.alpha, params.s, params.delta,
      params.sigma, params.sigma_eps>>

\* _params_to_array(params)
ParamsToArray(params) ==
    <<params.g, params.n, params.s, params.alpha, params.delta,
      params.sigma, params.sigma_eps>>

\* dict.update on a copy: the keys of q replace or extend those of p
Update(p, q) ==
    [k \in DOMAIN p \cup DOMAIN q |-> IF k \in DOMAIN q THEN q[k] ELSE p[k]]

\* _cobb_douglas_initial_guess(model, data, iso3_code, bounds, sigma0, sigma_eps0)
\* given what match_moments returned
CobbDouglasInitialGuess(tmp_params, sigma0, sigma_eps0) ==
    ParamsToArray(Update(tmp_params,
                         [sigma |-> sigma0, sigma_eps |-> sigma_eps0]))

\* The first part of maximize_likelihood, up to the call of the optimizer:
\* either it raises, or it has the locals the optimizer is called with.
MaximizeLikelihoodSetup(m, rows, bounds, sigma0, sigma_eps0, olsOnEmpty) ==
    LET complete == DropNa(rows, MaximizeLikelihoodRequiredVars)
    IN  IF complete = <<>>
        THEN [kind |-> "raise", error |-> InsufficientData]
        ELSE
        LET start       == SliceStart(complete, bounds)
            end         == SliceEnd(complete, bounds)
            tmp_data    == Loc(complete, start, end)
            output      == Loc(Column(tmp_data, "rgdpna"), start, end)
            capital     == Loc(Column(tmp_data, "rkna"), start, end)
            labor       == Loc(Column(tmp_data, "emp"), start, end)
            labor_share == Loc(Column(tmp_data, "labsh"), start, end)
            technology  == EvaluateSolowResidual(m, output, capital, labor)
            moments     == MatchMoments(m, rows, bounds, olsOnEmpty)
        IN  IF moments.kind = "raise"
            THEN moments
            ELSE [kind |-> "optimize",
                  output |-> output, capital |-> capital, labor |-> labor,
                  labor_share |-> labor_share, technology |-> technology,
                  initial_guess |->
                      CobbDouglasInitialGuess(moments.value, sigma0, sigma_eps0)]

\* None in a (min, max) pair of the optimizer's bounds: no bound on that side
NoBound == <<>>

\* eps = 1e-6
eps == R(1, 1000000)

\* Mutant: the two (eps, 1 - eps) pairs come first, over g and n.
Bnds_SharesFirst ==
    << <<eps, RSub(One, eps)>>, <<eps, RSub(One, eps)>>,
       <<NoBound, NoBound>>, <<NoBound, NoBound>>,
       <<eps, NoBound>>, <<eps, NoBound>>, <<eps, NoBound>> >>

\* bnds = [(None, None), (None, None), (eps, 1-eps), (eps, 1-eps),
\*         (eps, None), (eps, None), (eps, None)]
Bnds ==
    << <<NoBound, NoBound>>, <<NoBound, NoBound>>,
       <<eps, RSub(One, eps)>>, <<eps, RSub(One, eps)>>,
       <<eps, NoBound>>, <<eps, NoBound>>, <<eps, NoBound>> >>

\* Mutant: a parameter mapping is built whatever the optimizer reports.
MaximizeLikelihoodResult_AlwaysPair(locals, result) ==
    [kind |-> "return", is_pair |-> TRUE, result |-> result,
     params |-> ArrayToParams(result.x)]

\* Mutant: K0 is not added to the mapping returned.
MaximizeLikelihoodResult_NoK0(locals, result) ==
    IF result.success
    THEN IF Len(locals.technology) = 0
         THEN [kind |-> "raise", error |-> "IndexError"]
         ELSE [kind |-> "return", is_pair |-> TRUE, result |-> result,
               params |-> Update(ArrayToParams(result.x),
                                 [A0 |-> locals.technology[1].val,
                                  L0 |-> locals.labor[1].val])]
    ELSE [kind |-> "return", is_pair |-> FALSE, result |-> result]

\* Mutant: A0, L0 and K0 are read at the last observation of the window.
MaximizeLikelihoodResult_LastObservation(locals, result) ==
    IF result.success
    THEN IF Len(locals.technology) = 0
         THEN [kind |-> "raise", error |-> "IndexError"]
         ELSE [kind |-> "return", is_pair |-> TRUE, result |-> result,
               params |-> Update(ArrayToParams(result.x),
                                 [A0 |-> locals.technology[Len(locals.technology)].val,
                                  L0 |-> locals.labor[Len(locals.labor)].val,
                                  K0 |-> locals.capital[Len(locals.capital)].val])]
    ELSE [kind |-> "return", is_pair |-> FALSE, result |-> result]

\* The end of maximize_likelihood, given the optimizer's result object:
\* `return result, tmp_params` is a pair, `return result` the bare object.
MaximizeLikelihoodResult(locals, result) ==
    IF result.success
    THEN IF Len(locals.technology) = 0
         THEN [kind |-> "raise", error |-> "IndexError"]
         ELSE [kind |-> "return", is_pair |-> TRUE, result |-> result,
               params |-> Update(ArrayToParams(result.x),
                                 [A0 |-> locals.technology[1].val,
                                  L0 |-> locals.labor[1].val,
                                  K0 |-> locals.capital[1].val])]
    ELSE [kind |-> "return", is_pair |-> FALSE, result |-> result]

(* ------------------------- _likelihood_function ------------------------ *)

\* model.evaluate_output_elasticity(k) at one k: alpha_K(k) = k f'(k) / f(k)
\* of (4.2.5).  Under Cobb-Douglas it is alpha at every k; under CES it is
\* alpha k**rho / (alpha k**rho + 1 - alpha), which is in the model's numbers
\* at k = 1.
OutputElasticity(m, k) ==
    IF IsCobbDouglasForm(m)
    THEN m.params.alpha
    ELSE IF Log(k) = Zero
         THEN RDiv(m.params.alpha, RAdd(m.params.alpha, RSub(One, m.params.alpha)))
         ELSE NaN

\* A real number rational + ln_scale * ln(scale) + ln_2pi * ln(2 pi).
Real(rational, ln_scale, ln_2pi, scale) ==
    [rational |-> rational, ln_scale |-> ln_scale, ln_2pi |-> ln_2pi,
     scale |-> scale]

\* np.log(stats.norm.pdf(x, 0, scale)):
\* -ln(scale) - ln(2 pi) / 2 - x**2 / (2 scale**2); nan for a scale that is
\* not positive.
LogNormPdf(x, scale) ==
    IF RLt(Zero, scale)
    THEN Real(RSub(Zero, RDiv(RMul(x, x), RMul(R(2, 1), RMul(scale, scale)))),
              R(-1, 1), R(-1, 2), scale)
    ELSE Real(NaN, Zero, Zero, scale)

\* np.sum of such numbers, all with the same scale
RECURSIVE RealSum(_, _)
RealSum(xs, scale) ==
    IF xs = <<>> THEN Real(Zero, Zero, Zero, scale)
    ELSE LET rest == RealSum(Tail(xs), scale)
         IN  Real(RAdd(Head(xs).rational, rest.rational),
                  RAdd(Head(xs).ln_scale, rest.ln_scale),
                  RAdd(Head(xs).ln_2pi, rest.ln_2pi), scale)

\* unary minus
RealNeg(x) ==
    Real(RSub(Zero, x.rational), RSub(Zero, x.ln_scale), RSub(Zero, x.ln_2pi),
         x.scale)

\* Mutant: the output elasticity itself is taken for the predicted labor
\* share.
LikelihoodValue_ElasticityAsLaborShare(m, output, capital, labor, labor_share) ==
    LET technology == EvaluateSolowResidual(m, output, capital, labor)
        k == [i \in 1..Len(capital) |->
                 Exp(RSub(Log(capital[i].val),
                          RAdd(Log(technology[i].val), Log(labor[i].val))))]
        residual == [i \in 1..Len(labor_share) |->
                        RSub(labor_share[i].val, OutputElasticity(m, k[i]))]
        logpdf == [i \in 1..Len(residual) |->
                      LogNormPdf(residual[i], m.params.sigma_eps)]
    IN  RealNeg(RealSum(logpdf, m.params.sigma_eps))

\* What _likelihood_function returns once model.params holds the candidate:
\* technology, k, predicted_labor_share, residual, -total_log_likelihood.
LikelihoodValue(m, output, capital, labor, labor_share) ==
    LET technology == EvaluateSolowResidual(m, output, capital, labor)
        k == [i \in 1..Len(capital) |->
                 Exp(RSub(Log(capital[i].val),
                          RAdd(Log(technology[i].val), Log(labor[i].val))))]
        predicted_labor_share == [i \in 1..Len(k) |->
                                     RSub(One, OutputElasticity(m, k[i]))]
        residual == [i \in 1..Len(labor_share) |->
                        RSub(labor_share[i].val, predicted_labor_share[i])]
        logpdf == [i \in 1..Len(residual) |->
                      LogNormPdf(residual[i], m.params.sigma_eps)]
    IN  RealNeg(RealSum(logpdf, m.params.sigma_eps))

(* ------------------------------- inputs -------------------------------- *)

\* cobb_douglas_params of the notebooks
CobbDouglasParams ==
    [A0 |-> Lvl(Zero), L0 |-> Lvl(Zero), g |-> R(1, 50), n |-> R(3, 100),
     s |-> R(3, 20), delta |-> R(1, 20), alpha |-> R(33, 100)]

\* ces_params of the calibration notebook, at sigma
CesParams(sigma) ==
    Update(CobbDouglasParams,
           [K0 |-> Lvl(Zero), sigma |-> sigma, sigma_eps |-> R(1, 100)])

\* default_params of the first notebook: g + n + delta < 0
FishyParams ==
    Update(CobbDouglasParams, [g |-> Zero, n |-> R(-3, 100), delta |-> R(1, 100)])

Without(p, key) == [k \in DOMAIN p \ {key} |-> p[k]]

\* The (variant, params) pairs a model is constructed with or assigned.
ModelChoices ==
    { <<"CobbDouglas", CobbDouglasParams>>,
      <<"CobbDouglas", Update(CobbDouglasParams, [alpha |-> R(1, 2)])>>,
      <<"CobbDouglas", FishyParams>>,
      <<"CobbDouglas", Without(CobbDouglasParams, "alpha")>>,
      <<"CobbDouglas", Update(CobbDouglasParams, [alpha |-> One])>>,
      <<"CobbDouglas", Update(CobbDouglasParams, [s |-> Zero])>>,
      <<"CobbDouglas", Update(CobbDouglasParams, [delta |-> Zero])>>,
      <<"CES", CesParams(R(19, 20))>>,
      <<"CES", CesParams(One)>>,
      <<"CES", CobbDouglasParams>> }

\* The bounds a call is made with: none, or a pair of year labels or None.
BoundsChoices ==
    {NoBounds} \cup {Bounds(a, b) : a \in {None, NYears - 1}, b \in {None, NYears - 1}}

\* (sigma0, sigma_eps0) of a call
GuessChoices == { <<R(1, 2), R(1, 100)>>, <<One, R(1, 50)>> }

\* The points the optimizer may try after its starting point.  Neither
\* Nelder-Mead nor BFGS confines them to the bounds it is given.
Candidates ==
    { <<R(1, 100), R(1, 50), R(1, 5), R(2, 5), R(1, 20), R(3, 4), R(1, 50)>>,
      <<R(1, 100), R(1, 50), R(1, 5), R(6, 5), R(1, 20), One, R(1, 50)>> }

(* ------------------------- the model's dynamics ------------------------ *)

\* x ** n for a natural number n
RECURSIVE IPow(_, _)
IPow(x, n) ==
    IF n = 0 THEN One
    ELSE IF n % 2 = 0
         THEN LET half == IPow(x, n \div 2) IN RMul(half, half)
         ELSE RMul(x, IPow(x, n - 1))

\* The natural number whose square is n, or -1 when n is not a square.
ISqrt(n) ==
    LET top == IF n < 1000 THEN n ELSE 1000
    IN  IF \E r \in 0..top : r * r = n
        THEN CHOOSE r \in 0..top : r * r = n
        ELSE -1

\* x ** (1/b) where it is a rational number; NaN where it is not (a negative
\* base, as in floating point, or a root that exact arithmetic cannot hold).
Root(x, b) ==
    IF IsNaN(x) \/ x[1] < 0 THEN NaN
    ELSE IF b = 1 \/ x = One \/ x = Zero THEN x
    ELSE IF b = 2
         THEN LET n == ISqrt(x[1])
                  d == ISqrt(x[2])
              IN  IF n < 0 \/ d < 0 THEN NaN ELSE R(n, d)
         ELSE NaN

\* x ** r for a rational exponent r
RPow(x, r) ==
    IF IsNaN(x) \/ IsNaN(r) THEN NaN
    ELSE LET root == Root(x, r[2])
         IN  IF IsNaN(root) THEN NaN
             ELSE IF r[1] >= 0 THEN IPow(root, r[1])
                  ELSE RDiv(One, IPow(root, -r[1]))

\* The intensive form f(k) = F(k, 1) of the production function:
\* cobb_douglas_output = K**alpha * (A * L)**(1 - alpha) and
\* ces_output = (alpha * K**rho + (1 - alpha) * (A * L)**rho)**(1 / rho)
\* with rho = (sigma - 1) / sigma, at K = k and A * L = 1.
IntensiveOutput(m, k) ==
    IF IsCobbDouglasForm(m)
    THEN RPow(k, m.params.alpha)
    ELSE LET rho == RDiv(RSub(m.params.sigma, One), m.params.sigma)
         IN  RPow(RAdd(RMul(m.params.alpha, RPow(k, rho)),
                       RSub(One, m.params.alpha)),
                  RDiv(One, rho))

\* g + n + delta
EffectiveDepreciation(m) == RAdd(RAdd(m.params.g, m.params.n), m.params.delta)

\* Mutant: depreciation is left out of the rate at which capital per unit
\* of effective labor is diluted.
EvaluateKDot_NoDepreciation(m, k) ==
    RSub(RMul(m.params.s, IntensiveOutput(m, k)),
         RMul(RAdd(m.params.g, m.params.n), k))

\* evaluate_k_dot(k): the drift s f(k) - (g + n + delta) k of (1.3.6)
EvaluateKDot(m, k) ==
    RSub(RMul(m.params.s, IntensiveOutput(m, k)),
         RMul(EffectiveDepreciation(m), k))

\* steady_state: k* = (s / (n + g + delta)) ** (1 / (1 - alpha)) under
\* Cobb-Douglas; under CES the k at which s f(k) = (g + n + delta) k.  NaN
\* when there is none.
SteadyState(m) ==
    IF IsCobbDouglasForm(m)
    THEN RPow(RDiv(m.params.s, EffectiveDepreciation(m)),
              RDiv(One, RSub(One, m.params.alpha)))
    ELSE LET rho == RDiv(RSub(m.params.sigma, One), m.params.sigma)
             cs  == RDiv(EffectiveDepreciation(m), m.params.s)
         IN  RPow(RDiv(RSub(One, m.params.alpha),
                       RSub(RPow(cs, rho), m.params.alpha)),
                  RDiv(One, rho))

\* exp(-(n + g + delta) (1 - alpha) t) at t = j half-lives of that
\* exponential, t = j ln 2 / ((n + g + delta) (1 - alpha)).
Decay(j) == IPow(R(1, 2), j)

\* Mutant: the weights of the steady state and of the initial condition
\* change places.
AnalyticSolution_WeightsSwapped(m, ti, k0) ==
    [i \in 1..Len(ti) |->
        <<ti[i],
          RPow(RAdd(RMul(RDiv(m.params.s, EffectiveDepreciation(m)), Decay(ti[i])),
                    RMul(RPow(k0, RSub(One, m.params.alpha)),
                         RSub(One, Decay(ti[i])))),
               RDiv(One, RSub(One, m.params.alpha)))>>]

\* analytic_solution(ti, k0) of (4.2.0): the pairs (t, k(t)) for the times
\* of ti, given in half-lives.
AnalyticSolution(m, ti, k0) ==
    [i \in 1..Len(ti) |->
        <<ti[i],
          RPow(RAdd(RMul(RDiv(m.params.s, EffectiveDepreciation(m)),
                         RSub(One, Decay(ti[i]))),
                    RMul(RPow(k0, RSub(One, m.params.alpha)), Decay(ti[i]))),
               RDiv(One, RSub(One, m.params.alpha)))>>]

\* Mutant: the step adds gross investment s f(k), not the drift.
IntegratorStep_GrossInvestment(m, k, h, integrator) ==
    IF integrator = "euler"
    THEN RAdd(k, RMul(h, RMul(m.params.s, IntensiveOutput(m, k))))
    ELSE LET mid == RAdd(k, RMul(RDiv(h, R(2, 1)), EvaluateKDot(m, k)))
         IN  RAdd(k, RMul(h, RMul(m.params.s, IntensiveOutput(m, mid))))

\* One step of size h of a one-step integrator from k.
IntegratorStep(m, k, h, integrator) ==
    IF integrator = "euler"
    THEN RAdd(k, RMul(h, EvaluateKDot(m, k)))
    ELSE LET mid == RAdd(k, RMul(RDiv(h, R(2, 1)), EvaluateKDot(m, k)))
         IN  RAdd(k, RMul(h, EvaluateKDot(m, mid)))

\* ivp.solve(t0, k0, h, T, integrator): the pairs (t, k) from t0 in steps of
\* h until t reaches T.
RECURSIVE IvpSolve(_, _, _, _, _, _)
IvpSolve(m, t0, k0, h, T, integrator) ==
    IF ~RLt(t0, T)
    THEN << <<t0, k0>> >>
    ELSE << <<t0, k0>> >> \o IvpSolve(m, RAdd(t0, h),
                                      IntegratorStep(m, k0, h, integrator),
                                      h, T, integrator)

\* The parameter sets the dynamics are evaluated with.
DynamicsModels ==
    { [variant |-> "CobbDouglas", params |-> Update(CobbDouglasParams, [alpha |-> R(1, 2)])],
      [variant |-> "CobbDouglas", params |-> Update(CobbDouglasParams, [alpha |-> R(1, 2), s |-> R(1, 5)])],
      [variant |-> "CobbDouglas", params |-> Update(CobbDouglasParams, [s |-> R(1, 10)])],
      [variant |-> "CES", params |-> Update(CesParams(R(1, 2)), [alpha |-> R(1, 2)])],
      [variant |-> "CES", params |-> Update(CesParams(R(1, 2)), [alpha |-> R(1, 2), s |-> R(3, 10)])],
      [variant |-> "CES", params |-> Update(CesParams(R(1, 2)), [alpha |-> R(1, 2), s |-> R(1, 20)])] }

\* Capital stocks (per unit of effective labor) the dynamics are evaluated at.
CapitalChoices ==
    { R(1, 4), R(1, 2), One, R(2, 1), R(9, 4), R(4, 1), R(5, 1), R(9, 1) }

\* Initial conditions: the steady state, half of it as in the notebook, and
\* fixed values.
InitialConditions(m) ==
    {k \in {SteadyState(m), RMul(R(1, 2), SteadyState(m))} : ~IsNaN(k)}
        \cup {R(1, 4), One, R(4, 1)}

\* Time grids ti, in half-lives.
TimeGrids == { <<0>>, <<0, 1>>, <<0, 1, 2>>, <<0, 2, 3>> }

\* (h, T, integrator) of a call of ivp.solve
SolveChoices ==
    { <<One, One, "euler">>, <<One, R(2, 1), "euler">>,
      <<R(1, 2), One, "euler">>, <<R(2, 1), R(4, 1), "euler">>,
      <<One, One, "midpoint">>, <<R(1, 2), R(1, 2), "midpoint">>,
      <<R(2, 1), R(2, 1), "midpoint">> }

\* No value of the trajectory is outside exact arithmetic.
Representable(traj) == \A i \in 1..Len(traj) : ~IsNaN(traj[i][2])

(* ------------------------------ the state ------------------------------ *)

VARIABLES
    data,    \* the chosen country's rows of the panel
    model,   \* the model object: [variant, params]
    pc,      \* "idle", or "optimizing" inside optimize.minimize
    call,    \* the locals of the maximize_likelihood call in progress
    ret,     \* what the last operation was called with and how it ended
    ops      \* the number of operations begun

vars == <<data, model, pc, call, ret, ops>>

NoCall == [op |-> "none"]

\* The models the notebooks construct successfully.
InitModels ==
    { [variant |-> c[1], params |-> c[2]] :
        c \in {d \in ModelChoices : ValidateParams(d[1], d[2])} }

Init ==
    /\ data \in Datasets
    /\ model \in InitModels
    /\ pc = "idle"
    /\ call = NoCall
    /\ ret = [op |-> "none"]
    /\ ops = 0

\* solowpy.Model(params=p) of a variant: validates, then holds p
Construct(variant, p) ==
    /\ pc = "idle"
    /\ ops < MaxOps
    /\ ops' = ops + 1
    /\ IF ValidateParams(variant, p)
       THEN /\ model' = [variant |-> variant, params |-> p]
            /\ ret' = [op |-> "construct", variant |-> variant, params |-> p,
                       entry |-> model, out |-> [kind |-> "return"]]
       ELSE /\ model' = model
            /\ ret' = [op |-> "construct", variant |-> variant, params |-> p,
                       entry |-> model,
                       out |-> [kind |-> "raise", error |-> "AttributeError"]]
    /\ UNCHANGED <<data, pc, call>>

\* model.params = p: validates, then holds p
SetParams(p) ==
    /\ pc = "idle"
    /\ ops < MaxOps
    /\ ops' = ops + 1
    /\ IF ValidateParams(model.variant, p)
       THEN /\ model' = [model EXCEPT !.params = p]
            /\ ret' = [op |-> "set_params", variant |-> model.variant, params |-> p,
                       entry |-> model, out |-> [kind |-> "return"]]
       ELSE /\ model' = model
            /\ ret' = [op |-> "set_params", variant |-> model.variant, params |-> p,
                       entry |-> model,
                       out |-> [kind |-> "raise", error |-> "AttributeError"]]
    /\ UNCHANGED <<data, pc, call>>

\* What pd.ols may do with no observation at all.
OlsOnEmptyChoices == {"raise", "nan"}

\* Mutant: the estimates are also stored in the model passed in.
CallMatchMoments_WritesModel(bounds) ==
    /\ pc = "idle"
    /\ ops < MaxOps
    /\ HasClosedForm(model, data)
    /\ ops' = ops + 1
    /\ \E out \in {MatchMoments(model, data, bounds, o) : o \in OlsOnEmptyChoices} :
          /\ ret' = [op |-> "match_moments", bounds |-> bounds, entry |-> model,
                     out |-> out]
          /\ model' = IF out.kind = "return"
                      THEN [model EXCEPT !.params = Update(@, out.value)]
                      ELSE model
    /\ UNCHANGED <<data, pc, call>>

\* match_moments(model, data, iso3_code, bounds)
CallMatchMoments(bounds) ==
    /\ pc = "idle"
    /\ ops < MaxOps
    /\ HasClosedForm(model, data)
    /\ ops' = ops + 1
    /\ \E out \in {MatchMoments(model, data, bounds, o) : o \in OlsOnEmptyChoices} :
          ret' = [op |-> "match_moments", bounds |-> bounds, entry |-> model,
                  out |-> out]
    /\ UNCHANGED <<data, model, pc, call>>

\* maximize_likelihood(model, data, iso3_code, bounds, sigma0=, sigma_eps0=)
\* up to its call of optimize.minimize
CallMaximizeLikelihood(bounds, guess) ==
    /\ pc = "idle"
    /\ ops < MaxOps
    /\ HasClosedForm(model, data)
    /\ ops' = ops + 1
    /\ \E setup \in {MaximizeLikelihoodSetup(model, data, bounds, guess[1],
                                              guess[2], o) : o \in OlsOnEmptyChoices} :
          IF setup.kind = "raise"
          THEN /\ ret' = [op |-> "maximize_likelihood", bounds |-> bounds,
                          entry |-> model, minimize_calls |-> 0, out |-> setup]
               /\ UNCHANGED <<pc, call>>
          ELSE /\ pc' = "optimizing"
               /\ call' = [op |-> "maximize_likelihood", guess |-> guess,
                           locals |-> setup, evaluated |-> <<>>,
                           values |-> <<>>, held |-> model.params,
                           x0 |-> setup.initial_guess, bnds |-> Bnds]
               /\ ret' = [op |-> "maximize_likelihood", bounds |-> bounds,
                          entry |-> model, minimize_calls |-> 1,
                          out |-> [kind |-> "running"]]
    /\ UNCHANGED <<data, model>>

\* Mutant: the candidate is stored in the model without being validated.
LikelihoodFunction_NoValidation ==
    /\ pc = "optimizing"
    /\ Len(call.evaluated) < MaxEvals
    /\ \E params_array \in (IF call.evaluated = <<>>
                             THEN {call.locals.initial_guess}
                             ELSE Candidates) :
          LET tmp_params == Update(model.params, ArrayToParams(params_array))
              m == [model EXCEPT !.params = tmp_params]
          IN  /\ HasClosedForm(m, data)
              /\ model' = m
              /\ call' = [call EXCEPT
                             !.held = model.params,
                             !.evaluated = Append(@, params_array),
                             !.values = Append(@,
                                 LikelihoodValue(m, call.locals.output,
                                                 call.locals.capital,
                                                 call.locals.labor,
                                                 call.locals.labor_share))]
              /\ UNCHANGED <<pc, ret>>
    /\ UNCHANGED <<data, ops>>

\* Mutant: tmp_params is model.params itself, not a copy of it, so the
\* update is made in the mapping the model holds.
LikelihoodFunction_UpdatesInPlace ==
    /\ pc = "optimizing"
    /\ Len(call.evaluated) < MaxEvals
    /\ \E params_array \in (IF call.evaluated = <<>>
                             THEN {call.locals.initial_guess}
                             ELSE Candidates) :
          LET tmp_params == Update(model.params, ArrayToParams(params_array))
              m == [model EXCEPT !.params = tmp_params]
          IN  IF ValidateParams(model.variant, tmp_params)
              THEN /\ HasClosedForm(m, data)
                   /\ model' = m
                   /\ call' = [call EXCEPT
                                  !.held = tmp_params,
                                  !.evaluated = Append(@, params_array),
                                  !.values = Append(@,
                                      LikelihoodValue(m, call.locals.output,
                                                      call.locals.capital,
                                                      call.locals.labor,
                                                      call.locals.labor_share))]
                   /\ UNCHANGED <<pc, ret>>
              ELSE /\ ret' = [ret EXCEPT !.out =
                                  [kind |-> "raise", error |-> "AttributeError"]]
                   /\ pc' = "idle"
                   /\ call' = NoCall
                   /\ UNCHANGED model
    /\ UNCHANGED <<data, ops>>

\* One call-back of _likelihood_function(params_array, model, ...): the
\* optimizer's first point is its x0.  call.held is what the mapping object
\* that model.params was when the call-back began holds once it has ended:
\* tmp_params is a copy of it, so the update leaves it as it was.
LikelihoodFunction ==
    /\ pc = "optimizing"
    /\ Len(call.evaluated) < MaxEvals
    /\ \E params_array \in (IF call.evaluated = <<>>
                             THEN {call.locals.initial_guess}
                             ELSE Candidates) :
          LET tmp_params == Update(model.params, ArrayToParams(params_array))
              m == [model EXCEPT !.params = tmp_params]
          IN  IF ValidateParams(model.variant, tmp_params)
              THEN /\ HasClosedForm(m, data)
                   /\ model' = m
                   /\ call' = [call EXCEPT
                                  !.held = model.params,
                                  !.evaluated = Append(@, params_array),
                                  !.values = Append(@,
                                      LikelihoodValue(m, call.locals.output,
                                                      call.locals.capital,
                                                      call.locals.labor,
                                                      call.locals.labor_share))]
                   /\ UNCHANGED <<pc, ret>>
              ELSE /\ ret' = [ret EXCEPT !.out =
                                  [kind |-> "raise", error |-> "AttributeError"]]
                   /\ pc' = "idle"
                   /\ call' = NoCall
                   /\ UNCHANGED model
    /\ UNCHANGED <<data, ops>>

\* optimize.minimize returns its result object, and maximize_likelihood ends.
MinimizeReturns(success, i) ==
    /\ pc = "optimizing"
    /\ i \in 1..Len(call.evaluated)
    /\ LET result == [success |-> success, x |-> call.evaluated[i],
                      nfev |-> Len(call.evaluated)]
       IN  ret' = [ret EXCEPT !.out = MaximizeLikelihoodResult(call.locals, result)]
    /\ pc' = "idle"
    /\ call' = NoCall
    /\ UNCHANGED <<data, model, ops>>

Next ==
    \/ \E c \in ModelChoices : Construct(c[1], c[2])
    \/ \E c \in ModelChoices : SetParams(c[2])
    \/ \E b \in BoundsChoices : CallMatchMoments(b)
    \/ \E b \in BoundsChoices, gs \in GuessChoices : CallMaximizeLikelihood(b, gs)
    \/ LikelihoodFunction
    \/ \E success \in BOOLEAN, i \in 1..MaxEvals : MinimizeReturns(success, i)

Spec == Init /\ [][Next]_vars

\* match_moments alone, applied to every model and data set of Init.
NextMatchMoments == \E b \in BoundsChoices : CallMatchMoments(b)

SpecMatchMoments == Init /\ [][NextMatchMoments]_vars

(* --------------------- the dynamics as operations ---------------------- *)

\* model.evaluate_k_dot(k)
CallEvaluateKDot(k) ==
    /\ pc = "idle"
    /\ ops < MaxOps
    /\ ~IsNaN(EvaluateKDot(model, k))
    /\ ops' = ops + 1
    /\ ret' = [op |-> "evaluate_k_dot", k |-> k, entry |-> model,
               out |-> [kind |-> "return", value |-> EvaluateKDot(model, k)]]
    /\ UNCHANGED <<data, model, pc, call>>

\* cobb_douglas_model.analytic_solution(ti, k0)
CallAnalyticSolution(ti, k0) ==
    /\ pc = "idle"
    /\ ops < MaxOps
    /\ model.variant = "CobbDouglas"
    /\ Representable(AnalyticSolution(model, ti, k0))
    /\ ops' = ops + 1
    /\ ret' = [op |-> "analytic_solution", ti |-> ti, k0 |-> k0, entry |-> model,
               out |-> [kind |-> "return",
                        value |-> AnalyticSolution(model, ti, k0)]]
    /\ UNCHANGED <<data, model, pc, call>>

\* model.ivp.solve(t0=0, y0=k0, h=h, T=T, integrator=integrator)
CallIvpSolve(k0, h, T, integrator) ==
    /\ pc = "idle"
    /\ ops < MaxOps
    /\ Representable(IvpSolve(model, Zero, k0, h, T, integrator))
    /\ ops' = ops + 1
    /\ ret' = [op |-> "ivp.solve", k0 |-> k0, h |-> h, T |-> T,
               integrator |-> integrator, entry |-> model,
               out |-> [kind |-> "return",
                        value |-> IvpSolve(model, Zero, k0, h, T, integrator)]]
    /\ UNCHANGED <<data, model, pc, call>>

InitDynamics ==
    /\ data \in {d \in Datasets :
                   \A yr \in Years : Without(d[yr], "year") = Without(d[1], "year")}
    /\ model \in DynamicsModels
    /\ pc = "idle"
    /\ call = NoCall
    /\ ret = [op |-> "none"]
    /\ ops = 0

NextDynamics ==
    \/ \E k \in CapitalChoices : CallEvaluateKDot(k)
    \/ \E ti \in TimeGrids, k0 \in InitialConditions(model) :
          CallAnalyticSolution(ti, k0)
    \/ \E k0 \in InitialConditions(model), c \in SolveChoices :
          CallIvpSolve(k0, c[1], c[2], c[3])

SpecDynamics == InitDynamics /\ [][NextDynamics]_vars

(* ------------------- what the claims are stated with ------------------- *)

\* The years whose row has every series of `required` and lies in the window
\* the bounds describe, ends included.
WindowYears(bounds, required) ==
    { yr \in Years :
        /\ \A v \in required : ~IsMissing(data[yr], v)
        /\ \/ ~bounds[1]
           \/ /\ (bounds[2] = None \/ bounds[2] <= yr)
              /\ (bounds[3] = None \/ yr <= bounds[3]) }

RECURSIVE SumOver(_, _)
SumOver(S, v) ==
    IF S = {} THEN Zero
    ELSE LET yr == CHOOSE y \in S : TRUE
         IN  RAdd(data[yr][v], SumOver(S \ {yr}, v))

MeanOver(S, v) == RDiv(SumOver(S, v), R(Cardinality(S), 1))

\* The time trend of a window year: the number of window years before it.
TrendOf(S, yr) == R(Cardinality({z \in S : z < yr}), 1)

\* Sum over the window S of weight(yr) * (logy(yr) - (intercept + slope * trend)).
RECURSIVE ResidualSum(_, _, _, _, _)
ResidualSum(S, T, logy, beta, weighted) ==
    IF T = {} THEN Zero
    ELSE LET yr == CHOOSE y \in T : TRUE
             e  == RSub(logy[yr], RAdd(beta[2], RMul(beta[1], TrendOf(S, yr))))
         IN  RAdd(IF weighted THEN RMul(TrendOf(S, yr), e) ELSE e,
                  ResidualSum(S, T \ {yr}, logy, beta, weighted))

\* <<slope, intercept>> satisfies the normal equations of the least-squares
\* line of logy on the trend 0, 1, ..., N-1 over the window S.
IsLeastSquaresLine(S, logy, beta) ==
    /\ ResidualSum(S, S, logy, beta, FALSE) = Zero
    /\ ResidualSum(S, S, logy, beta, TRUE) = Zero

MatchMomentsReturned == ret.op = "match_moments" /\ ret.out.kind = "return"

MatchMomentsWindow == WindowYears(ret.bounds, MatchMomentsRequiredVars)

(* ------------------------------- claims -------------------------------- *)

\* C1 (as claimed): whenever the observations used for estimation (the rows
\* with every required series present, inside the bounds window) are none,
\* match_moments and maximize_likelihood end with the insufficient-data
\* error.
C1_EmptyWindowIsInsufficientData ==
    /\ ( /\ ret.op = "match_moments"
         /\ WindowYears(ret.bounds, MatchMomentsRequiredVars) = {} )
       => (ret.out.kind = "raise" /\ ret.out.error = InsufficientData)
    /\ ( /\ ret.op = "maximize_likelihood"
         /\ pc = "idle"
         /\ WindowYears(ret.bounds, MaximizeLikelihoodRequiredVars) = {} )
       => (ret.out.kind = "raise" /\ ret.out.error = InsufficientData)

\* C2 (as claimed): once a call of maximize_likelihood has ended, whether
\* the optimizer succeeded or not, the model holds the params it held on
\* entry.
C2_ModelParamsUnchanged ==
    (ret.op = "maximize_likelihood" /\ pc = "idle" /\ ret.out.kind = "return")
        => model.params = ret.entry.params

\* A parameter set breaks 0 < alpha < 1, s > 0, delta > 0 or g+n+delta > 0.
BreaksInvariant(p) ==
    \/ p.alpha[1] <= 0
    \/ p.alpha[1] >= p.alpha[2]
    \/ p.s[1] <= 0
    \/ p.delta[1] <= 0
    \/ RAdd(p.g, RAdd(p.n, p.delta))[1] <= 0

Rejected == /\ ret.out.kind = "raise"
            /\ ret.out.error = "AttributeError"
            /\ model = ret.entry

\* C3: constructing a model with, or assigning to params, a parameter set
\* that lacks a required key or breaks 0 < alpha < 1, s > 0, delta > 0 or
\* g + n + delta > 0 raises the validation error and leaves the model as it
\* was; g = 0, n = -0.03, delta = 0.01 is rejected at construction.
C3_InvalidParamsRejected ==
    ret.op \in {"construct", "set_params"} =>
        /\ (\E k \in RequiredKeys(ret.variant) : k \notin DOMAIN ret.params)
              => Rejected
        /\ ( /\ RequiredKeys(ret.variant) \subseteq DOMAIN ret.params
             /\ BreaksInvariant(ret.params) ) => Rejected
        /\ (ret.params = FishyParams => Rejected)

C3_Witness ==
    /\ ret.op = "construct"
    /\ ret.params = FishyParams
    /\ ret.out.kind = "raise"

\* C4: a call of maximize_likelihood invokes the optimizer once and never
\* again; when the optimizer reports non-convergence its result object is
\* what the call returns, with no parameter mapping.
C4_NoRetryResultReturned ==
    ret.op = "maximize_likelihood" =>
        /\ ret.minimize_calls <= 1
        /\ (ret.out.kind \in {"running", "return"} => ret.minimize_calls = 1)
        /\ (ret.out.kind = "return" /\ ~ret.out.result.success) =>
              /\ pc = "idle"
              /\ DOMAIN ret.out = {"kind", "is_pair", "result"}
              /\ ~ret.out.is_pair
              /\ ret.out.result.nfev \in 1..MaxEvals

C4_Witness ==
    /\ ret.op = "maximize_likelihood"
    /\ pc = "idle"
    /\ ret.out.kind = "return"
    /\ ~ret.out.result.success
    /\ ret.minimize_calls = 1

\* C5: for every non-empty window, the alpha match_moments returns is 1
\* minus the arithmetic mean of labsh over exactly the window's
\* observations; labsh = 0.6, 0.6, 0.6 gives alpha = 0.4.
C5_AlphaIsOneMinusMeanLaborShare ==
    (MatchMomentsReturned /\ MatchMomentsWindow # {}) =>
        ret.out.value.alpha = RSub(One, MeanOver(MatchMomentsWindow, "labsh"))

C5_Witness ==
    /\ MatchMomentsReturned
    /\ MatchMomentsWindow = Years
    /\ \A yr \in Years : data[yr].labsh = R(6, 10)
    /\ ret.out.value.alpha = R(4, 10)

\* C6: the s match_moments returns is the mean of csh_i and the delta the
\* mean of delta_k, over the same window of observations as alpha.
C6_SavingsAndDepreciationAreMeans ==
    (MatchMomentsReturned /\ MatchMomentsWindow # {}) =>
        /\ ret.out.value.s = MeanOver(MatchMomentsWindow, "csh_i")
        /\ ret.out.value.delta = MeanOver(MatchMomentsWindow, "delta_k")

C6_Witness ==
    /\ MatchMomentsReturned
    /\ Cardinality(MatchMomentsWindow) = 2
    /\ ret.out.value.s = R(1, 4)
    /\ ret.out.value.delta = R(3, 40)

\* log(emp) of each year
LogEmp == [yr \in Years |-> Log(data[yr].emp)]

\* C7: n is the slope and L0 the exponential of the intercept of the
\* least-squares line of log(emp) on the trend 0, 1, ..., N-1 over the N
\* observations of the window, so the trend is 0 at the window's first
\* observation.
C7_LaborTrendIsLeastSquares ==
    (MatchMomentsReturned /\ MatchMomentsWindow # {}) =>
        IsLeastSquaresLine(MatchMomentsWindow, LogEmp,
                           <<ret.out.value.n, Log(ret.out.value.L0)>>)

C7_Witness ==
    /\ MatchMomentsReturned
    /\ Cardinality(MatchMomentsWindow) = 3
    /\ ret.out.value.n = R(1, 2)
    /\ ret.out.value.L0 = Exp(R(1, 6))

\* log of the Solow residual of each year's output, capital and labor under
\* the model the call was made with
LogTechnology ==
    [yr \in Years |->
        IF \E v \in {"rgdpna", "rkna", "emp"} : IsMissing(data[yr], v)
        THEN NaN
        ELSE LogSolowResidual(ret.entry, data[yr].rgdpna, data[yr].rkna,
                              data[yr].emp)]

\* C8: g is the slope and A0 the exponential of the intercept of the
\* least-squares line of the log of the technology series (the Solow
\* residual over the window) on the same trend 0, 1, ..., N-1.
C8_TechnologyTrendIsLeastSquares ==
    (MatchMomentsReturned /\ MatchMomentsWindow # {}) =>
        IsLeastSquaresLine(MatchMomentsWindow, LogTechnology,
                           <<ret.out.value.g, Log(ret.out.value.A0)>>)

C8_Witness ==
    /\ MatchMomentsReturned
    /\ Cardinality(MatchMomentsWindow) = 3
    /\ ret.out.value.g # Zero
    /\ ret.out.value.g # ret.out.value.n
    /\ Log(ret.out.value.A0) # Zero

\* C9: the observations match_moments uses are exactly the rows with all
\* six required series present whose year lies between bounds[0] and
\* bounds[1], ends included, and every complete row when bounds is None.
C9_WindowIsCompleteRowsInBounds ==
    MatchMomentsReturned =>
        /\ {ret.out.index[i] : i \in 1..Len(ret.out.index)} = MatchMomentsWindow
        /\ Len(ret.out.index) = Cardinality(MatchMomentsWindow)

C9_Witness ==
    /\ MatchMomentsReturned
    /\ ret.bounds = Bounds(None, NYears - 1)
    /\ MatchMomentsWindow = {NYears - 1}
    /\ \A v \in MatchMomentsRequiredVars : ~IsMissing(data[NYears], v)

\* C10: every mapping match_moments returns has exactly the seven keys s,
\* alpha, delta, n, L0, g, A0, the keys a Cobb-Douglas model requires, so
\* assigning it to such a model's params misses no key.
C10_SevenKeys ==
    MatchMomentsReturned =>
        /\ DOMAIN ret.out.value = {"s", "alpha", "delta", "n", "L0", "g", "A0"}
        /\ DOMAIN ret.out.value = RequiredKeys("CobbDouglas")

C10_Witness ==
    /\ MatchMomentsReturned
    /\ MatchMomentsWindow # {}
    /\ ValidateParams("CobbDouglas", ret.out.value)

\* maximize_likelihood has returned after the optimizer reported success.
MaximizeLikelihoodSucceeded ==
    /\ ret.op = "maximize_likelihood"
    /\ pc = "idle"
    /\ ret.out.kind = "return"
    /\ ret.out.result.success

TenKeys == {"g", "n", "s", "alpha", "delta", "sigma", "sigma_eps", "A0", "L0", "K0"}

C12_InitialGuessIsMomentsThenGuesses ==
    (ret.op = "maximize_likelihood" /\ pc = "optimizing") =>
        LET x0 == call.locals.initial_guess
            W  == WindowYears(ret.bounds, MatchMomentsRequiredVars)
        IN  /\ Len(x0) = 7
            /\ x0[6] = call.guess[1]
            /\ x0[7] = call.guess[2]
            /\ \E o \in OlsOnEmptyChoices :
                  LET mm == MatchMoments(ret.entry, data, ret.bounds, o)
                  IN  /\ mm.kind = "return"
                      /\ x0[1] = mm.value.g
                      /\ x0[2] = mm.value.n
                      /\ x0[3] = mm.value.s
                      /\ x0[4] = mm.value.alpha
                      /\ x0[5] = mm.value.delta
            /\ W # {} =>
                  /\ x0[3] = MeanOver(W, "csh_i")
                  /\ x0[4] = RSub(One, MeanOver(W, "labsh"))
                  /\ x0[5] = MeanOver(W, "delta_k")
            /\ call.evaluated # <<>> => call.evaluated[1] = x0

C12_Witness ==
    /\ ret.op = "maximize_likelihood"
    /\ pc = "optimizing"
    /\ Len(call.evaluated) = 1
    /\ Cardinality(WindowYears(ret.bounds, MatchMomentsRequiredVars)) = NYears
    /\ call.locals.initial_guess[3] # call.locals.initial_guess[4]
    /\ call.locals.initial_guess[6] = R(1, 2)
    /\ call.locals.initial_guess[7] = R(1, 100)

C18_AlwaysReturnsPair ==
    (ret.op = "maximize_likelihood" /\ pc = "idle" /\ ret.out.kind = "return")
        => (ret.out.is_pair /\ "params" \in DOMAIN ret.out)

\* C19 (as claimed): maximize_likelihood ends with the insufficient-data
\* error only if no year has all of rgdpna, rkna, emp and labsh present.
C19_FailsOnlyWithoutFourSeries ==
    ( /\ ret.op = "maximize_likelihood"
      /\ ret.out.kind = "raise"
      /\ ret.out.error = InsufficientData )
        => \A yr \in Years :
              \E v \in MaximizeLikelihoodRequiredVars : IsMissing(data[yr], v)

\* C20: whatever constructions, params assignments and optimizer
\* evaluations have happened, the params a model holds satisfy
\* 0 < alpha < 1, s > 0, delta > 0 and g + n + delta > 0, and an evaluation
\* whose candidate breaks them ends the call with the validation error and
\* leaves the model holding what it held.
C20_ModelParamsAlwaysValid ==
    /\ ~BreaksInvariant(model.params)
    /\ RequiredKeys(model.variant) \subseteq DOMAIN model.params
    /\ ( /\ ret.op = "maximize_likelihood"
         /\ ret.out.kind = "raise"
         /\ ret.out.error = "AttributeError" ) => pc = "idle"

C20_Witness ==
    /\ ret.op = "maximize_likelihood"
    /\ pc = "idle"
    /\ ret.out.kind = "raise"
    /\ ret.out.error = "AttributeError"
    /\ model.params # ret.entry.params
    /\ ~BreaksInvariant(model.params)

\* |a|
RAbs(a) == IF IsNaN(a) THEN NaN ELSE <<Abs(a[1]), a[2]>>

\* k ** (1 - alpha) less its value at the steady state, under the model m
GapToSteadyState(m, k) ==
    RSub(RPow(k, RSub(One, m.params.alpha)),
         RPow(SteadyState(m), RSub(One, m.params.alpha)))

\* C15: for a valid Cobb-Douglas parameter set and k0 > 0 the analytic
\* solution is k0 at t = 0; it stays at the steady state
\* k* = (s / (n + g + delta)) ** (1 / (1 - alpha)) at every t when k0 = k*;
\* and it converges to k*: the gap between k(t) ** (1 - alpha) and
\* k* ** (1 - alpha) halves with every half-life, so k(t) is strictly nearer
\* to k* at every later time.
C15_AnalyticSolutionStartsAtK0AndConverges ==
    ret.op = "analytic_solution" =>
        LET m    == ret.entry
            traj == ret.out.value
            ks   == RPow(RDiv(m.params.s, EffectiveDepreciation(m)),
                         RDiv(One, RSub(One, m.params.alpha)))
        IN  /\ ValidateParams("CobbDouglas", m.params)
            /\ RLt(Zero, ret.k0)
            /\ Len(traj) = Len(ret.ti)
            /\ \A i \in 1..Len(traj) :
                  /\ traj[i][1] = ret.ti[i]
                  /\ ret.ti[i] = 0 => traj[i][2] = ret.k0
                  /\ ret.k0 = ks => traj[i][2] = ks
                  /\ GapToSteadyState(m, traj[i][2])
                        = RMul(Decay(ret.ti[i]), GapToSteadyState(m, ret.k0))
            /\ \A i, j \in 1..Len(traj) :
                  (ret.ti[i] < ret.ti[j] /\ ret.k0 # ks) =>
                      RLt(RAbs(RSub(traj[j][2], ks)), RAbs(RSub(traj[i][2], ks)))

C15_Witness ==
    /\ ret.op = "analytic_solution"
    /\ ret.ti = <<0, 1, 2>>
    /\ ret.k0 = R(1, 4)
    /\ SteadyState(ret.entry) = R(9, 4)
    /\ ret.out.value[1][2] = R(1, 4)
    /\ ret.out.value[2][2] = One
    /\ ret.out.value[3][2] = R(25, 16)

ModelUnder(x) ==
    [ret.entry EXCEPT !.params = Update(@, ArrayToParams(x))]

\* labor_share_t - (1 - output elasticity at k_t) in a window year, with
\* k_t = capital_t / (technology_t * labor_t) and technology_t the Solow
\* residual of the year under the candidate x
LaborShareResidual(x, yr) ==
    LET m   == ModelUnder(x)
        lnA == LogSolowResidual(m, data[yr].rgdpna, data[yr].rkna, data[yr].emp)
        k   == Exp(RSub(Log(data[yr].rkna), RAdd(lnA, Log(data[yr].emp))))
    IN  RSub(data[yr].labsh, RSub(One, OutputElasticity(m, k)))

RECURSIVE SumOfSquaredResiduals(_, _)
SumOfSquaredResiduals(S, x) ==
    IF S = {} THEN Zero
    ELSE LET yr == CHOOSE y \in S : TRUE
         IN  RAdd(RMul(LaborShareResidual(x, yr), LaborShareResidual(x, yr)),
                  SumOfSquaredResiduals(S \ {yr}, x))

\* C21: for a candidate array x with a positive sigma_eps, the objective is
\* minus the sum over the window's observations of the log of the Gaussian
\* density with mean 0 and scale sigma_eps at labor_share_t - (1 - output
\* elasticity at k_t): with N observations and residuals r_t that is
\* N ln(sigma_eps) + (N / 2) ln(2 pi) + sum r_t**2 / (2 sigma_eps**2).
C21_ObjectiveIsNegativeGaussianLogLikelihood ==
    (ret.op = "maximize_likelihood" /\ pc = "optimizing") =>
        /\ Len(call.values) = Len(call.evaluated)
        /\ \A i \in 1..Len(call.evaluated) :
              LET x == call.evaluated[i]
                  W == WindowYears(ret.bounds, MaximizeLikelihoodRequiredVars)
                  N == R(Cardinality(W), 1)
              IN  RLt(Zero, x[7]) =>
                     /\ call.values[i].scale = x[7]
                     /\ call.values[i].ln_scale = N
                     /\ call.values[i].ln_2pi = RDiv(N, R(2, 1))
                     /\ call.values[i].rational =
                            RDiv(SumOfSquaredResiduals(W, x),
                                 RMul(R(2, 1), RMul(x[7], x[7])))

C21_Witness ==
    /\ ret.op = "maximize_likelihood"
    /\ pc = "optimizing"
    /\ Len(call.values) = 2
    /\ call.evaluated[2] # call.evaluated[1]
    /\ Cardinality(WindowYears(ret.bounds, MaximizeLikelihoodRequiredVars)) >= 2
    /\ ~IsNaN(call.values[2].rational)
    /\ RLt(Zero, call.values[2].rational)
    /\ call.values[2].rational # call.values[1].rational
    /\ \E yr \in WindowYears(ret.bounds, MaximizeLikelihoodRequiredVars) :
          data[yr].rkna # data[yr].rgdpna

\* The first observation of the window maximize_likelihood works on.
FirstObservation ==
    LET W == WindowYears(ret.bounds, MaximizeLikelihoodRequiredVars)
    IN  CHOOSE yr \in W : \A z \in W : yr <= z

\* C22: on success the L0 and K0 returned are the employment and the capital
\* of the first observation of the window, and A0 is the Solow residual of
\* that observation under the params the model held when the call was made,
\* whatever alpha and sigma the optimizer returns.
C22_InitialLevelsFromFirstObservation ==
    MaximizeLikelihoodSucceeded =>
        /\ WindowYears(ret.bounds, MaximizeLikelihoodRequiredVars) # {}
        /\ ret.out.params.L0 = data[FirstObservation].emp
        /\ ret.out.params.K0 = data[FirstObservation].rkna
        /\ ret.out.params.A0 =
              Exp(LogSolowResidual(ret.entry, data[FirstObservation].rgdpna,
                                   data[FirstObservation].rkna,
                                   data[FirstObservation].emp))

C22_Witness ==
    /\ MaximizeLikelihoodSucceeded
    /\ Cardinality(WindowYears(ret.bounds, MaximizeLikelihoodRequiredVars)) >= 2
    /\ ret.out.params.alpha # ret.entry.params.alpha
    /\ ret.out.params.A0 #
          Exp(LogSolowResidual(ModelUnder(ret.out.result.x),
                               data[FirstObservation].rgdpna,
                               data[FirstObservation].rkna,
                               data[FirstObservation].emp))
    /\ \E yr \in WindowYears(ret.bounds, MaximizeLikelihoodRequiredVars) :
          data[yr].emp # data[FirstObservation].emp

\* The models match_moments can be called with on the data at hand.
OtherModels == {m2 \in InitModels : HasClosedForm(m2, data)}

\* C23: two calls of match_moments with the same data, country and bounds
\* but models holding different params return the same s, alpha, delta, n
\* and L0; only g and A0, which come from the Solow residual under the
\* model's params, can differ.
C23_OnlyTechnologyDependsOnModel ==
    MatchMomentsReturned =>
        \E o \in OlsOnEmptyChoices :
           /\ MatchMoments(ret.entry, data, ret.bounds, o) = ret.out
           /\ \A m2 \in OtherModels :
                 LET other == MatchMoments(m2, data, ret.bounds, o)
                 IN  /\ other.kind = "return"
                     /\ other.index = ret.out.index
                     /\ \A key \in {"s", "alpha", "delta", "n", "L0"} :
                           other.value[key] = ret.out.value[key]

C23_Witness ==
    /\ MatchMomentsReturned
    /\ Cardinality(MatchMomentsWindow) = NYears
    /\ \E m2 \in OtherModels :
          /\ m2.params # ret.entry.params
          /\ m2.params.alpha # ret.out.value.alpha
          /\ \E o \in OlsOnEmptyChoices :
                LET other == MatchMoments(m2, data, ret.bounds, o)
                IN  /\ other.kind = "return"
                    /\ other.value.g # ret.out.value.g
                    /\ other.value.A0 # ret.out.value.A0
                    /\ ~IsNaN(other.value.g)
                    /\ ~IsNaN(ret.out.value.g)

\* A step is one evaluation of _likelihood_function that ran to its end.
IsEvaluation ==
    /\ pc = "optimizing"
    /\ pc' = "optimizing"
    /\ Len(call'.evaluated) = Len(call.evaluated) + 1

SevenKeys == {ParamKeys[i] : i \in 1..Len(ParamKeys)}

\* C24: an evaluation of _likelihood_function replaces only the keys g, n,
\* s, alpha, delta, sigma and sigma_eps of the model's params: every other
\* key the model held (A0, L0, K0) is still there with its value, no other
\* key appears, and the mapping the model held before is left as it was.
C24_EvaluationReplacesOnlySevenKeys ==
    [][IsEvaluation =>
          /\ DOMAIN model'.params = DOMAIN model.params \cup SevenKeys
          /\ \A key \in DOMAIN model.params \ SevenKeys :
                model'.params[key] = model.params[key]
          /\ \A i \in 1..Len(ParamKeys) :
                model'.params[ParamKeys[i]] =
                    call'.evaluated[Len(call'.evaluated)][i]
          /\ call'.held = model.params
          /\ model'.variant = model.variant]_vars

C24_Witness ==
    /\ pc = "optimizing"
    /\ Len(call.evaluated) = MaxEvals
    /\ {"A0", "L0", "K0"} \subseteq DOMAIN model.params
    /\ \A key \in {"A0", "L0", "K0"} : model.params[key] = ret.entry.params[key]
    /\ model.params.alpha # ret.entry.params.alpha
    /\ call.held # model.params
    /\ call.held # ret.entry.params

\* The position of a parameter in the arrays the optimizer works on.
Position(key) == CHOOSE i \in 1..Len(ParamKeys) : ParamKeys[i] = key

\* x lies within the (min, max) pair b.
Within(x, b) ==
    /\ (b[1] # NoBound => ~RLt(x, b[1]))
    /\ (b[2] # NoBound => ~RLt(b[2], x))

\* C25: the bounds passed to the optimizer line up, position by position,
\* with the order g, n, s, alpha, delta, sigma, sigma_eps of the arrays: g
\* and n are unbounded, s and alpha lie in [1e-6, 1 - 1e-6], and delta,
\* sigma and sigma_eps are at least 1e-6 with no upper bound.
C25_BoundsFollowParameterOrder ==
    (ret.op = "maximize_likelihood" /\ pc = "optimizing") =>
        /\ Len(call.bnds) = Len(call.x0)
        /\ Len(call.bnds) = Len(ParamKeys)
        /\ \A i \in 1..Len(call.x0) :
              ArrayToParams(call.x0)[ParamKeys[i]] = call.x0[i]
        /\ \A key \in {"g", "n"} :
              call.bnds[Position(key)] = <<NoBound, NoBound>>
        /\ \A key \in {"s", "alpha"} :
              call.bnds[Position(key)] = <<R(1, 1000000), R(999999, 1000000)>>
        /\ \A key \in {"delta", "sigma", "sigma_eps"} :
              call.bnds[Position(key)] = <<R(1, 1000000), NoBound>>

C25_Witness ==
    /\ ret.op = "maximize_likelihood"
    /\ pc = "optimizing"
    /\ call.evaluated # <<>>
    /\ call.x0[Position("s")] # call.x0[Position("alpha")]
    /\ \A i \in 1..Len(call.x0) :
          ~IsNaN(call.x0[i]) /\ Within(call.x0[i], call.bnds[i])
    /\ ~Within(call.x0[Position("sigma")], call.bnds[Position("alpha")])

\* A mapping cut down to the seven keys of the arrays.
Restrict(p) == [key \in SevenKeys |-> p[key]]

\* The arrays and the mappings a call of maximize_likelihood has converted
\* so far.
ArraysSeen == {call.x0} \cup {call.evaluated[i] : i \in 1..Len(call.evaluated)}

ParamsSeen == {q \in {model.params, call.held, ret.entry.params} :
                  SevenKeys \subseteq DOMAIN q}

\* C26: _params_to_array and _array_to_params are inverse to each other on
\* the seven parameters: _array_to_params(_params_to_array(p)) is p cut
\* down to the seven keys, and _params_to_array(_array_to_params(a)) is a
\* for an array a of length 7.
C26_ArrayAndParamsAreInverse ==
    (ret.op = "maximize_likelihood" /\ pc = "optimizing") =>
        /\ \A a \in ArraysSeen :
              Len(a) = 7 => ParamsToArray(ArrayToParams(a)) = a
        /\ \A q \in ParamsSeen :
              ArrayToParams(ParamsToArray(q)) = Restrict(q)

C26_Witness ==
    /\ ret.op = "maximize_likelihood"
    /\ pc = "optimizing"
    /\ Len(call.evaluated) = MaxEvals
    /\ \A a \in ArraysSeen : Len(a) = 7 /\ a[6] # a[7] /\ a[3] # a[4]
    /\ Cardinality(ArraysSeen) = 2
    /\ Cardinality(ParamsSeen) >= 2
    /\ \E q \in ParamsSeen : DOMAIN q # SevenKeys

====
